---- MODULE Spec2Model ----
(***************************************************************************)
(* A model of SVG.py: ExistingDoc (viewBox, getLayer, getLayersByID_dict,  *)
(* save), SVGDocInScale.getLayerInjector, NumDocTrafo and                  *)
(* ScaledInjectionPoint.inject.                                            *)
(*                                                                         *)
(* Python exceptions are modelled by their class names ("ok" for a normal  *)
(* return); SVG.ParseError is "ParseError", ElementTree's own ParseError   *)
(* is "ET.ParseError".  Numbers are exact rationals <<num, den>>.          *)
(***************************************************************************)
EXTENDS Integers, Sequences, FiniteSets, TLC

VARIABLES
    root,     \* children of the document's root element (self.root)
    vbattr,   \* the root's viewBox attribute: NoAttr or a sequence of characters
    deltaFnHV,\* SVGDocInScale._deltaFnHV: [deltaFnH, deltaFnV]
    ip,       \* the ScaledInjectionPoint the caller holds, or NoIP
    file,     \* what the last save wrote, or NoFile
    call,     \* the last call: its operation, arguments, exception and return value
    orig,     \* history: the children of the root as loaded
    log       \* history: per top-level element, the nodes injected into it, in call order

vars == <<root, vbattr, deltaFnHV, ip, file, call, orig, log>>

(***************************************************************************)
(* Bounds of the model.                                                    *)
(***************************************************************************)
MaxCoord == 2      \* world coordinates are drawn from 0..MaxCoord
MaxVBLen == 7      \* longest viewBox attribute value, in characters
MaxTop == 3        \* most top-level elements of a document (layer lookup)
MaxInject == 2     \* most successful injections into one document

None == [kind |-> "None"]
NoAttr == <<"absent">>
NoIP == [kind |-> "NoIP"]
NoFile == <<"nofile">>
NoCall == [op |-> "none", err |-> "ok"]

(***************************************************************************)
(* Exact arithmetic.                                                       *)
(***************************************************************************)
Abs(n) == IF n < 0 THEN -n ELSE n

RECURSIVE GCD(_, _)
GCD(a, b) == IF b = 0 THEN a ELSE GCD(b, a % b)

\* the rational n/d (d # 0) in lowest terms with a positive denominator
Rat(n, d) ==
    LET g == GCD(Abs(n), Abs(d))
        s == IF d < 0 THEN -1 ELSE 1
    IN  <<(s * n) \div g, (s * d) \div g>>

RatInt(n) == <<n, 1>>
RatMul(p, q) == Rat(p[1] * q[1], p[2] * q[2])
RatAdd(p, q) == Rat(p[1] * q[2] + q[1] * p[2], p[2] * q[2])

(***************************************************************************)
(* NumDocTrafo                                                             *)
(***************************************************************************)
\* the delta functions a caller may configure; NoFn is deltaFn=None
NoFn == "None"
DeltaFns == {NoFn, "double", "halve"}

\* a custom delta function D(a, b): "double" counts half units between a and
\* b, "halve" counts whole pairs of units (Python's //, which floors)
CustomDelta(fn, a, b) ==
    IF fn = "double" THEN 2 * (b - a) ELSE (b - a) \div 2

\* the denominator of the scale factor: deltaFn(a, b), or b - a by default
EndpointDelta(fn, a, b) ==
    IF fn # NoFn THEN CustomDelta(fn, a, b) ELSE b - a

\* a faulty variant: a zero delta is tolerated, the scale silently becomes 0
AxisScaleTolerant(extent, fn, a, b) ==
    LET d == EndpointDelta(fn, a, b)
    IN  IF d = 0 THEN [err |-> "ok", sc |-> RatInt(0)]
        ELSE [err |-> "ok", sc |-> Rat(extent, d)]

\* extent / delta: Python's true division raises ZeroDivisionError on 0
AxisScale(extent, fn, a, b) ==
    LET d == EndpointDelta(fn, a, b)
    IN  IF d = 0 THEN [err |-> "ZeroDivisionError", sc |-> RatInt(0)]
        ELSE [err |-> "ok", sc |-> Rat(extent, d)]

\* NumDocTrafo.__init__: the object built, or the exception raised.
\* viewBox is None or <<x1, y1, width, height>>.
NumDocTrafoInit(viewBox, hrange, vrange, deltaFnH, deltaFnV) ==
    IF viewBox = None
    THEN [err |-> "TypeError", obj |-> None]     \* cannot unpack None
    ELSE
    LET width == viewBox.box[3]
        H == AxisScale(width, deltaFnH, hrange[1], hrange[2])
        \* the vertical scale, too, is computed from width
        V == AxisScale(width, deltaFnV, vrange[1], vrange[2])
    IN  IF H.err # "ok" THEN [err |-> H.err, obj |-> None]
        ELSE IF V.err # "ok" THEN [err |-> V.err, obj |-> None]
        ELSE [err |-> "ok",
              obj |-> [kind |-> "NumDocTrafo",
                       h1 |-> hrange[1], h2 |-> hrange[2],
                       v1 |-> vrange[1], v2 |-> vrange[2],
                       x1 |-> viewBox.box[1], y1 |-> viewBox.box[2],
                       HXscale |-> H.sc, VYscale |-> V.sc,
                       deltaFnH |-> deltaFnH, deltaFnV |-> deltaFnV]]

\* the closure h2x built by __init__
h2x(t, h) ==
    IF t.deltaFnH # NoFn
    THEN RatAdd(RatMul(RatInt(CustomDelta(t.deltaFnH, t.h1, h)), t.HXscale), RatInt(t.x1))
    ELSE RatAdd(RatMul(RatInt(h - t.h1), t.HXscale), RatInt(t.x1))

\* the closure v2y built by __init__
v2y(t, v) ==
    IF t.deltaFnV # NoFn
    THEN RatAdd(RatMul(RatInt(CustomDelta(t.deltaFnV, t.v1, v)), t.VYscale), RatInt(t.y1))
    ELSE RatAdd(RatMul(RatInt(v - t.v1), t.VYscale), RatInt(t.y1))

Box(x, y, w, h) == [kind |-> "box", box |-> <<x, y, w, h>>]

(***************************************************************************)
(* The transform on its own: NumDocTrafo(viewBox, hrange, vrange, ...)     *)
(* for every box and range of the bounded sets, then h2x and v2y at the    *)
(* range endpoints.                                                        *)
(***************************************************************************)
Coords == 0..MaxCoord
Origins == {0, 1}
Widths == {2, 4}
Heights == {2, 3}

InitTrafo ==
    /\ root = <<>> /\ orig = <<>> /\ log = <<>>
    /\ vbattr = NoAttr
    /\ deltaFnHV \in [deltaFnH : DeltaFns, deltaFnV : DeltaFns]
    /\ ip = NoIP
    /\ file = NoFile
    /\ call = NoCall

\* t = NumDocTrafo(viewBox, hrange, vrange, **deltaFnHV)
Construct ==
    /\ call.op = "none"
    /\ \E x \in Origins, y \in Origins, w \in Widths, h \in Heights,
          hr \in Coords \X Coords, vr \in Coords \X Coords :
          LET r == NumDocTrafoInit(Box(x, y, w, h), hr, vr,
                                   deltaFnHV.deltaFnH, deltaFnHV.deltaFnV)
          IN  call' = [op |-> "NumDocTrafo", viewBox |-> <<x, y, w, h>>,
                       hrange |-> hr, vrange |-> vr,
                       err |-> r.err, ret |-> r.obj]
    /\ UNCHANGED <<root, vbattr, deltaFnHV, ip, file, orig, log>>

\* t.h2x(h1), t.h2x(h2), t.v2y(v1), t.v2y(v2) on the transform just built
EvalEndpoints ==
    /\ call.op = "NumDocTrafo"
    /\ call.err = "ok"
    /\ call' = [op |-> "eval", t |-> call.ret, viewBox |-> call.viewBox,
                err |-> "ok",
                ret |-> [xh1 |-> h2x(call.ret, call.ret.h1),
                         xh2 |-> h2x(call.ret, call.ret.h2),
                         yv1 |-> v2y(call.ret, call.ret.v1),
                         yv2 |-> v2y(call.ret, call.ret.v2)]]
    /\ UNCHANGED <<root, vbattr, deltaFnHV, ip, file, orig, log>>

NextTrafo == Construct \/ EvalEndpoints

SpecTrafo == InitTrafo /\ [][NextTrafo]_vars

\* whether the last call constructed a transform from a range whose endpoint
\* delta is zero on the horizontal or on the vertical axis
ZeroDeltaConstruction ==
    /\ call.op = "NumDocTrafo"
    /\ \/ EndpointDelta(deltaFnHV.deltaFnH, call.hrange[1], call.hrange[2]) = 0
       \/ EndpointDelta(deltaFnHV.deltaFnV, call.vrange[1], call.vrange[2]) = 0

\* C5 as stated: constructing a transform whose endpoint delta is zero on
\* either axis fails with DegenerateRangeError and produces no object.
C5_DegenerateRangeError ==
    ZeroDeltaConstruction =>
        call.err = "DegenerateRangeError" /\ call.ret = None

\* C5 as amended: constructing a transform whose endpoint delta is zero on
\* either axis (equal endpoints under subtraction, or a custom delta function
\* returning 0) fails with ZeroDivisionError and produces no object.
C5_ZeroDivisionError ==
    ZeroDeltaConstruction =>
        call.err = "ZeroDivisionError" /\ call.ret = None

\* a construction that fails on the vertical axis alone, through a custom
\* delta function that returns 0 for two different endpoints
C5_Witness ==
    /\ call.op = "NumDocTrafo"
    /\ EndpointDelta(deltaFnHV.deltaFnH, call.hrange[1], call.hrange[2]) # 0
    /\ deltaFnHV.deltaFnV = "halve"
    /\ call.vrange[1] # call.vrange[2]
    /\ call.err = "ZeroDivisionError"
    /\ call.ret = None

\* C6: each axis map, evaluated at its range endpoints, returns the box's
\* near and far edge on that axis: h2x(h1) = x1, h2x(h2) = x1 + width,
\* v2y(v1) = y1, v2y(v2) = y1 + height.
C6_EndpointsHitBoxEdges ==
    call.op = "eval" =>
        /\ call.ret.xh1 = RatInt(call.viewBox[1])
        /\ call.ret.xh2 = RatInt(call.viewBox[1] + call.viewBox[3])
        /\ call.ret.yv1 = RatInt(call.viewBox[2])
        /\ call.ret.yv2 = RatInt(call.viewBox[2] + call.viewBox[4])

(***************************************************************************)
(* ExistingDoc.viewBox                                                     *)
(***************************************************************************)
\* an attribute value is a sequence of these characters: two digits, the
\* separators blank and comma, and a character that is neither
Digits == {"2", "4"}
Separators == {" ", ","}
VBChars == Digits \cup Separators \cup {"x"}

\* re.findall("([^\s,]+)+", vbox): the maximal runs of characters that are
\* neither whitespace nor comma, left to right; cur is the run being read
RECURSIVE FindAll(_, _, _)
FindAll(s, i, cur) ==
    IF i > Len(s)
    THEN IF cur = <<>> THEN <<>> ELSE <<cur>>
    ELSE IF s[i] \in Separators
         THEN IF cur = <<>> THEN FindAll(s, i + 1, <<>>)
              ELSE <<cur>> \o FindAll(s, i + 1, <<>>)
         ELSE FindAll(s, i + 1, Append(cur, s[i]))

DigitValue(c) == IF c = "2" THEN 2 ELSE 4

\* whether float(tok) converts: here, whether tok is a decimal numeral
IsNumeral(tok) == \A i \in 1..Len(tok) : tok[i] \in Digits

\* the value of a decimal numeral
RECURSIVE NumeralValue(_)
NumeralValue(tok) ==
    IF tok = <<>> THEN 0
    ELSE 10 * NumeralValue(SubSeq(tok, 1, Len(tok) - 1)) + DigitValue(tok[Len(tok)])

\* list(map(float, coords)): ValueError at the first token float() rejects
MapFloat(coords) ==
    IF \E i \in 1..Len(coords) : ~IsNumeral(coords[i])
    THEN [err |-> "ValueError", ret |-> None]
    ELSE [err |-> "ok",
          ret |-> [kind |-> "box",
                   box |-> [i \in 1..Len(coords) |-> NumeralValue(coords[i])]]]

\* ExistingDoc.viewBox on a root whose viewBox attribute is attr.  An
\* attribute of a parsed document is a str or missing, so the method's last
\* branch (neither str nor None) is not reached.
viewBox(attr) ==
    IF attr # NoAttr
    THEN LET coords == FindAll(attr, 1, <<>>)
         IN  IF Len(coords) # 4
             THEN [err |-> "ParseError", ret |-> None]
             ELSE MapFloat(coords)
    ELSE [err |-> "ok", ret |-> None]

\* the sequences over S of length at most n
BoundedSeq(S, n) == UNION {[1..k -> S] : k \in 0..n}

InitViewBox ==
    /\ root = <<>> /\ orig = <<>> /\ log = <<>>
    /\ vbattr \in {NoAttr} \cup BoundedSeq(VBChars, MaxVBLen)
    /\ deltaFnHV = [deltaFnH |-> NoFn, deltaFnV |-> NoFn]
    /\ ip = NoIP
    /\ file = NoFile
    /\ call = NoCall

\* doc.viewBox()
CallViewBox ==
    /\ call.op = "none"
    /\ LET r == viewBox(vbattr)
       IN  call' = [op |-> "viewBox", err |-> r.err, ret |-> r.ret]
    /\ UNCHANGED <<root, vbattr, deltaFnHV, ip, file, orig, log>>

NextViewBox == CallViewBox

SpecViewBox == InitViewBox /\ [][NextViewBox]_vars

\* C7: viewBox returns "no box" without error when the attribute is absent;
\* the four values when the attribute splits on whitespace and commas into
\* exactly four numeric tokens; and fails with ParseError for any other token
\* count or when a token is not numeric.
C7_ViewBoxContract ==
    call.op = "viewBox" =>
        IF vbattr = NoAttr
        THEN call.err = "ok" /\ call.ret = None
        ELSE LET toks == FindAll(vbattr, 1, <<>>)
             IN  IF Len(toks) = 4 /\ \A i \in 1..4 : IsNumeral(toks[i])
                 THEN /\ call.err = "ok"
                      /\ call.ret = [kind |-> "box",
                                     box |-> <<NumeralValue(toks[1]), NumeralValue(toks[2]),
                                               NumeralValue(toks[3]), NumeralValue(toks[4])>>]
                 ELSE call.err = "ParseError"

(***************************************************************************)
(* Elements.  An element is [ns, tag, id, kids]; kids is the sequence of   *)
(* its children.  A reference to an element of the document is its path    *)
(* from the root: <<i>> is the root's i-th child, <<i, j>> that child's     *)
(* j-th child; NoPath stands for Python's None.                            *)
(***************************************************************************)
SvgNS == "http://www.w3.org/2000/svg"
OtherNS == "urn:other"
NoNS == ""
NoId == "(no id attribute)"
NoPath == <<>>

Elem(ns, tag, id, kids) == [ns |-> ns, tag |-> tag, id |-> id, kids |-> kids]

\* the names a method body can resolve: its locals and the module's globals
\* (ExistingDoc._NS is a class attribute: reachable as ExistingDoc._NS or
\* self._NS, not as the bare name _NS)
ModuleGlobals ==
    {"re", "ET", "ParseError", "ExistingDoc", "SVGDocInScale", "NumDocTrafo",
     "ScaledInjectionPoint"}
Resolves(name, locals) == name \in locals \cup ModuleGlobals

\* what ElementPath makes of the predicate [@id='<id>']: an id holding a
\* single quote ends the quoted value early, and the predicate is rejected
PlainIds == {"a", "b", "c"}
XPathError(id) ==
    IF id \in PlainIds THEN "ok"
    ELSE IF id = "q'" THEN "SyntaxError"
    ELSE "KeyError"             \* "q']"

\* whether el is matched by the step svg:g
IsSvgG(el) == el.ns = SvgNS /\ el.tag = "g"

\* the first i in from..Len(children) with an svg:g of that id, or 0
RECURSIVE FirstMatch(_, _, _)
FirstMatch(children, id, from) ==
    IF from > Len(children) THEN 0
    ELSE IF IsSvgG(children[from]) /\ children[from].id = id THEN from
    ELSE FirstMatch(children, id, from + 1)

\* a faulty variant: the path is taken to mean .//svg:g, groups at any depth in
\* document order
RECURSIVE FirstMatchDeep(_, _, _)
FirstMatchDeep(children, id, from) ==
    IF from > Len(children) THEN NoPath
    ELSE IF IsSvgG(children[from]) /\ children[from].id = id THEN <<from>>
    ELSE LET j == FirstMatch(children[from].kids, id, 1)
         IN  IF j # 0 THEN <<from, j>>
             ELSE FirstMatchDeep(children, id, from + 1)

getLayerDeep(children, id) ==
    IF XPathError(id) # "ok" THEN [err |-> XPathError(id), ret |-> NoPath]
    ELSE [err |-> "ok", ret |-> FirstMatchDeep(children, id, 1)]

\* ExistingDoc.getLayer: root.find("svg:g[@id='<id>']", _NS), the first child
\* of the root that matches; a path without a leading .// selects among the
\* children of the root only
getLayer(children, id) ==
    IF XPathError(id) # "ok" THEN [err |-> XPathError(id), ret |-> NoPath]
    ELSE LET i == FirstMatch(children, id, 1)
         IN  [err |-> "ok", ret |-> IF i = 0 THEN NoPath ELSE <<i>>]

\* the loop of getLayersByID_dict over the children i.. of the root; result
\* maps the ids found so far to the paths of their elements
RECURSIVE LayersLoop(_, _, _, _)
LayersLoop(children, ids, i, result) ==
    IF i > Len(children) THEN [err |-> "ok", ret |-> result]
    ELSE LET el == children[i]
         IN  IF IsSvgG(el) /\ el.id # NoId /\ el.id \in ids
             THEN IF el.id \in DOMAIN result
                  THEN [err |-> "ParseError", ret |-> None]
                  ELSE LayersLoop(children, ids, i + 1,
                                  [k \in DOMAIN result \cup {el.id} |->
                                      IF k = el.id THEN <<i>> ELSE result[k]])
             ELSE LayersLoop(children, ids, i + 1, result)

\* ExistingDoc.getLayersByID_dict: the arguments of findall are evaluated
\* first, and the bare name _NS is among them
getLayersByID_dict(children, ids) ==
    IF ~Resolves("_NS", {"self", "ids", "elementXpath", "result"})
    THEN [err |-> "NameError", ret |-> None]
    ELSE LayersLoop(children, ids, 1, [k \in {} |-> NoPath])

(***************************************************************************)
(* Layer lookup on its own: every document of at most MaxTop top-level     *)
(* elements drawn from TopElements, then one lookup.                       *)
(***************************************************************************)
DocIds == {"a", "b"}
NestedA == Elem(SvgNS, "g", "a", <<>>)
TopElements ==
    {Elem(SvgNS, "g", id, kids) : id \in DocIds \cup {NoId}, kids \in {<<>>, <<NestedA>>}}
    \cup {Elem(SvgNS, "rect", id, <<>>) : id \in {"a", NoId}}
    \cup {Elem(OtherNS, "g", "a", <<>>)}

LookupIds == PlainIds \cup {"q'", "q']"}
LookupIdSets == SUBSET {"a", "c"} \cup {{"a", "b"}}

InitLayers ==
    /\ root \in BoundedSeq(TopElements, MaxTop)
    /\ orig = root
    /\ log = [i \in 1..Len(root) |-> <<>>]
    /\ vbattr = NoAttr
    /\ deltaFnHV = [deltaFnH |-> NoFn, deltaFnV |-> NoFn]
    /\ ip = NoIP
    /\ file = NoFile
    /\ call = NoCall

\* doc.getLayer(id)
CallGetLayer ==
    /\ call.op = "none"
    /\ \E id \in LookupIds :
          LET r == getLayer(root, id)
          IN  call' = [op |-> "getLayer", id |-> id, err |-> r.err, ret |-> r.ret]
    /\ UNCHANGED <<root, vbattr, deltaFnHV, ip, file, orig, log>>

\* doc.getLayersByID_dict(ids)
CallGetLayersByID ==
    /\ call.op = "none"
    /\ \E ids \in LookupIdSets :
          LET r == getLayersByID_dict(root, ids)
          IN  call' = [op |-> "getLayersByID_dict", ids |-> ids,
                       err |-> r.err, ret |-> r.ret]
    /\ UNCHANGED <<root, vbattr, deltaFnHV, ip, file, orig, log>>

NextLayers == CallGetLayer \/ CallGetLayersByID

SpecLayers == InitLayers /\ [][NextLayers]_vars

\* the paths of the svg:g elements of the document, at either depth, whose
\* id attribute is id
GroupsWithId(id) ==
    {<<i>> : i \in {k \in 1..Len(root) : IsSvgG(root[k]) /\ root[k].id = id}}
    \cup UNION {{<<i, j>> : j \in {k \in 1..Len(root[i].kids) :
                                      /\ IsSvgG(root[i].kids[k])
                                      /\ root[i].kids[k].id = id}}
                : i \in 1..Len(root)}

\* document order: an element precedes its children and the later siblings
\* of its ancestors
Precedes(p, q) ==
    \/ p[1] < q[1]
    \/ p[1] = q[1] /\ Len(p) < Len(q)
    \/ p[1] = q[1] /\ Len(p) = 2 /\ Len(q) = 2 /\ p[2] < q[2]

\* C8: on a document with no duplicate group ids getLayersByID_dict returns
\* a mapping whose keys are exactly the requested ids that are the id of a
\* group, each mapped to its element; on a document where two groups share
\* an id it fails with ParseError.
C8_LayersById ==
    call.op = "getLayersByID_dict" =>
        LET tops(id) == {i \in 1..Len(root) : IsSvgG(root[i]) /\ root[i].id = id}
        IN  IF \A id \in DocIds : Cardinality(tops(id)) <= 1
            THEN /\ call.err = "ok"
                 /\ DOMAIN call.ret = {id \in call.ids : tops(id) # {}}
                 /\ \A id \in DOMAIN call.ret : call.ret[id] \in {<<i>> : i \in tops(id)}
            ELSE call.err = "ParseError"

\* C9 as stated (for an id the path syntax can carry): getLayer searches the
\* groups of the document at every depth in document order and returns the
\* first whose id is the one given, and returns "not found" without raising
\* when there is none.
C9_FirstGroupAtAnyDepth ==
    (call.op = "getLayer" /\ call.id \in PlainIds) =>
        /\ call.err = "ok"
        /\ IF GroupsWithId(call.id) = {}
           THEN call.ret = NoPath
           ELSE /\ call.ret \in GroupsWithId(call.id)
                /\ \A q \in GroupsWithId(call.id) \ {call.ret} : Precedes(call.ret, q)

\* C9 as amended: for an id without a single quote, getLayer searches only
\* the groups that are children of the root, in document order, and returns
\* the first whose id is the one given; when no child of the root is such a
\* group (a nested one may be) it returns "not found" without raising.
C9_FirstTopLevelGroup ==
    (call.op = "getLayer" /\ call.id \in PlainIds) =>
        /\ call.err = "ok"
        /\ LET tops == {i \in 1..Len(root) : IsSvgG(root[i]) /\ root[i].id = call.id}
           IN  IF tops = {}
               THEN call.ret = NoPath
               ELSE /\ Len(call.ret) = 1
                    /\ call.ret[1] \in tops
                    /\ \A i \in tops : call.ret[1] <= i

\* a lookup that passes over a nested group of the id, and elements of the
\* id that are no svg:g, and returns a later child of the root
C9_Witness ==
    /\ call.op = "getLayer"
    /\ call.id = "a"
    /\ call.err = "ok"
    /\ call.ret = <<3>>
    /\ root[1].kids # <<>>
    /\ root[2].id = "a"

(***************************************************************************)
(* ScaledInjectionPoint.inject and ExistingDoc.save                        *)
(***************************************************************************)
\* markup is a sequence of tags: the start and end tag of an element a and
\* the empty-element tag of an element b
MarkupTokens == {"<a>", "</a>", "<b/>"}

RECURSIVE ParseElement(_, _)
RECURSIVE ParseContent(_, _)

\* the element that starts at token i: [ok, node, next]
ParseElement(toks, i) ==
    IF i > Len(toks) THEN [ok |-> FALSE, node |-> None, next |-> i]
    ELSE IF toks[i] = "<b/>"
         THEN [ok |-> TRUE, node |-> Elem(NoNS, "b", NoId, <<>>), next |-> i + 1]
    ELSE IF toks[i] = "<a>"
         THEN LET c == ParseContent(toks, i + 1)
              IN  IF c.ok /\ c.next <= Len(toks) /\ toks[c.next] = "</a>"
                  THEN [ok |-> TRUE, node |-> Elem(NoNS, "a", NoId, c.kids),
                        next |-> c.next + 1]
                  ELSE [ok |-> FALSE, node |-> None, next |-> i]
    ELSE [ok |-> FALSE, node |-> None, next |-> i]      \* an end tag with no start

\* the elements from token i up to an end tag or the end: [ok, kids, next]
ParseContent(toks, i) ==
    IF i > Len(toks) \/ toks[i] = "</a>"
    THEN [ok |-> TRUE, kids |-> <<>>, next |-> i]
    ELSE LET e == ParseElement(toks, i)
         IN  IF ~e.ok THEN [ok |-> FALSE, kids |-> <<>>, next |-> i]
             ELSE LET rest == ParseContent(toks, e.next)
                  IN  [ok |-> rest.ok, kids |-> <<e.node>> \o rest.kids,
                       next |-> rest.next]

\* ET.fromstring(content): str and bytes are fed to the parser, which wants
\* exactly one element and nothing after it; any other value is a TypeError
fromstring(content) ==
    IF content.kind # "text" THEN [err |-> "TypeError", node |-> None]
    ELSE LET e == ParseElement(content.toks, 1)
         IN  IF e.ok /\ e.next = Len(content.toks) + 1
             THEN [err |-> "ok", node |-> e.node]
             ELSE [err |-> "ET.ParseError", node |-> None]

\* a faulty variant: TypeError is missing from the except clause
InjectCaughtNarrow == {"ET.ParseError"}

\* except (ET.ParseError, TypeError)
InjectCaught == {"ET.ParseError", "TypeError"}

\* a faulty variant: the node is put first (list.insert(0, node))
AppendFirst(children, target, node) ==
    [children EXCEPT ![target[1]].kids = <<node>> \o @]

\* target.append(node) on the element at path target (a child of the root)
AppendTo(children, target, node) ==
    [children EXCEPT ![target[1]].kids = Append(@, node)]

\* ScaledInjectionPoint.inject(content) with self.target = target: the
\* exception, the document afterwards and the node appended.  self.target.append
\* is looked up before its argument is evaluated.
inject(children, target, content) ==
    IF target = NoPath
    THEN [err |-> "AttributeError", root |-> children, node |-> None]
    ELSE IF content.kind = "element"
    THEN IF ~Resolves("inj", {"self", "content"})
         THEN [err |-> "NameError", root |-> children, node |-> None]
         ELSE [err |-> "ok", root |-> AppendTo(children, target, content.node),
               node |-> content.node]
    ELSE LET r == fromstring(content)
         IN  IF r.err \in InjectCaught
             THEN [err |-> "ParseError", root |-> children, node |-> None]
             ELSE IF r.err # "ok"
             THEN [err |-> r.err, root |-> children, node |-> None]
             ELSE [err |-> "ok", root |-> AppendTo(children, target, r.node),
                   node |-> r.node]

\* the name the serializer writes for an element: the svg namespace has the
\* registered prefix '', another namespace gets a generated prefix
QName(el) ==
    IF el.ns = SvgNS \/ el.ns = NoNS THEN <<"", el.tag>> ELSE <<"ns1", el.tag>>

RECURSIVE Serialize(_)
RECURSIVE SerializeAll(_)

\* the tags written for an element and its subtree
Serialize(el) ==
    IF el.kids = <<>> THEN << <<"empty", QName(el), el.id>> >>
    ELSE << <<"start", QName(el), el.id>> >> \o SerializeAll(el.kids)
         \o << <<"end", QName(el), NoId>> >>

SerializeAll(els) ==
    IF els = <<>> THEN <<>> ELSE Serialize(Head(els)) \o SerializeAll(Tail(els))

\* a faulty variant: the children of the root are written without their subtrees
saveShallow(children, attr) ==
    << <<"xml", <<"", "utf8">>, NoId>>, <<"start", <<"", "svg">>, attr>> >>
    \o SerializeAll([i \in 1..Len(children) |-> [children[i] EXCEPT !.kids = <<>>]])
    \o << <<"end", <<"", "svg">>, NoId>> >>

\* ExistingDoc.save: tree.write(file, encoding="utf8") writes the declaration
\* and the root with everything below it
save(children, attr) ==
    << <<"xml", <<"", "utf8">>, NoId>>, <<"start", <<"", "svg">>, attr>> >>
    \o SerializeAll(children) \o << <<"end", <<"", "svg">>, NoId>> >>

(***************************************************************************)
(* SVGDocInScale.getLayerInjector                                          *)
(***************************************************************************)
\* a faulty variant: a layer that is not found is refused
getLayerInjectorStrict(children, attr, deltaFn, id, hrange, vrange) ==
    LET l == getLayer(children, id)
        b == viewBox(attr)
        t == NumDocTrafoInit(b.ret, hrange, vrange, deltaFn.deltaFnH, deltaFn.deltaFnV)
    IN  IF l.err # "ok" THEN [err |-> l.err, ret |-> None]
        ELSE IF l.ret = NoPath THEN [err |-> "LayerNotFoundError", ret |-> None]
        ELSE IF b.err # "ok" THEN [err |-> b.err, ret |-> None]
        ELSE IF t.err # "ok" THEN [err |-> t.err, ret |-> None]
        ELSE [err |-> "ok",
              ret |-> [kind |-> "ScaledInjectionPoint", target |-> l.ret, trafo |-> t.obj]]

\* ScaledInjectionPoint(self.getLayer(id), self.viewBox(), hrange, vrange,
\* **self._deltaFnHV): the arguments left to right, then NumDocTrafo.__init__,
\* then self.target = target_element
getLayerInjector(children, attr, deltaFn, id, hrange, vrange) ==
    LET l == getLayer(children, id)
        b == viewBox(attr)
        t == NumDocTrafoInit(b.ret, hrange, vrange, deltaFn.deltaFnH, deltaFn.deltaFnV)
    IN  IF l.err # "ok" THEN [err |-> l.err, ret |-> None]
        ELSE IF b.err # "ok" THEN [err |-> b.err, ret |-> None]
        ELSE IF t.err # "ok" THEN [err |-> t.err, ret |-> None]
        ELSE [err |-> "ok",
              ret |-> [kind |-> "ScaledInjectionPoint", target |-> l.ret, trafo |-> t.obj]]

(***************************************************************************)
(* A loaded document and its caller: getLayerInjector, inject and save in  *)
(* any order.                                                              *)
(***************************************************************************)
\* the document: a layer a that holds a rect, an empty layer b, and a group
\* without id that holds a nested group n
MainDoc ==
    << Elem(SvgNS, "g", "a", <<Elem(SvgNS, "rect", NoId, <<>>)>>),
       Elem(SvgNS, "g", "b", <<>>),
       Elem(SvgNS, "g", NoId, <<Elem(SvgNS, "g", "n", <<>>)>>) >>

\* viewBox="2 2 4 2", viewBox="2,2,4" and viewBox="2 2 x 2"
MainViewBoxes ==
    { NoAttr,
      <<"2", " ", "2", " ", "4", " ", "2">>,
      <<"2", ",", "2", ",", "4">>,
      <<"2", " ", "2", " ", "x", " ", "2">> }

\* the layers a and b, an id no element has, and an id with a quote
InjectorIds == {"a", "b", "c", "q'"}
HRanges == {<<0, 2>>, <<1, 1>>}
VRanges == {<<0, 1>>, <<2, 2>>}

\* "<b/>" and "<a><b/></a>"
WellFormedMarkup == { <<"<b/>">>, <<"<a>", "<b/>", "</a>">> }
\* "", "<a>" and "<b/><b/>"
MalformedMarkup == { <<>>, <<"<a>">>, <<"<b/>", "<b/>">> }

\* what a caller may pass to inject: markup (str or bytes), an Element it
\* has built, or a value that is neither (None)
Contents ==
    {[kind |-> "text", toks |-> t] : t \in WellFormedMarkup \cup MalformedMarkup}
    \cup {[kind |-> "element", node |-> Elem(NoNS, "circle", NoId, <<>>)]}
    \cup {[kind |-> "other", value |-> "None"]}

RECURSIVE SumLen(_)
SumLen(seqs) == IF seqs = <<>> THEN 0 ELSE Len(Head(seqs)) + SumLen(Tail(seqs))

\* the injections that have succeeded
Injected == SumLen(log)

Init ==
    /\ root = MainDoc
    /\ orig = root
    /\ log = [i \in 1..Len(root) |-> <<>>]
    /\ vbattr \in MainViewBoxes
    /\ deltaFnHV = [deltaFnH |-> "double", deltaFnV |-> NoFn]
    /\ ip = NoIP
    /\ file = NoFile
    /\ call = NoCall

\* ip = doc.getLayerInjector(id, hrange, vrange); the caller's ip is bound
\* only when the call returns
GetLayerInjector ==
    /\ \E id \in InjectorIds, hr \in HRanges, vr \in VRanges :
          LET r == getLayerInjector(root, vbattr, deltaFnHV, id, hr, vr)
          IN  /\ call' = [op |-> "getLayerInjector", id |-> id, hrange |-> hr,
                          vrange |-> vr, err |-> r.err, ret |-> r.ret]
              /\ ip' = IF r.err = "ok" THEN r.ret ELSE ip
    /\ UNCHANGED <<root, vbattr, deltaFnHV, file, orig, log>>

\* ip.inject(content)
Inject ==
    /\ ip # NoIP
    /\ \E content \in Contents :
          LET r == inject(root, ip.target, content)
          IN  /\ r.err = "ok" => Injected < MaxInject
              /\ root' = r.root
              /\ log' = IF r.err = "ok"
                        THEN [log EXCEPT ![ip.target[1]] = Append(@, r.node)]
                        ELSE log
              /\ call' = [op |-> "inject", content |-> content, target |-> ip.target,
                          err |-> r.err, before |-> root]
    /\ UNCHANGED <<vbattr, deltaFnHV, ip, file, orig>>

\* doc.save(file)
Save ==
    /\ file' = save(root, vbattr)
    /\ call' = [op |-> "save", err |-> "ok"]
    /\ UNCHANGED <<root, vbattr, deltaFnHV, ip, orig, log>>

Next == GetLayerInjector \/ Inject \/ Save

Spec == Init /\ [][Next]_vars

(***************************************************************************)
(* Claims about getLayerInjector, inject and save.                         *)
(***************************************************************************)
\* well-formed markup, by the grammar: one element, which is <b/> or
\* <a> content </a>, where content is a sequence of elements
RECURSIVE IsElementMarkup(_)
RECURSIVE IsContentMarkup(_)
IsElementMarkup(t) ==
    \/ t = <<"<b/>">>
    \/ /\ Len(t) >= 2
       /\ t[1] = "<a>"
       /\ t[Len(t)] = "</a>"
       /\ IsContentMarkup(SubSeq(t, 2, Len(t) - 1))
IsContentMarkup(t) ==
    \/ t = <<>>
    \/ \E k \in 1..Len(t) :
          IsElementMarkup(SubSeq(t, 1, k)) /\ IsContentMarkup(SubSeq(t, k + 1, Len(t)))

\* the children of the root that are groups with this id
TopGroups(id) == {i \in 1..Len(root) : IsSvgG(root[i]) /\ root[i].id = id}

\* C1: after k successful injections into a layer that was loaded with N
\* children the layer has N + k children: the N it was loaded with, unchanged
\* and in order, then the injected nodes in call order; every other element
\* is as loaded; and the node of a successful call is the last child of its
\* target when the call returns.
C1_AppendInCallOrder ==
    /\ Len(root) = Len(orig)
    /\ \A i \in 1..Len(root) :
          /\ root[i] = [orig[i] EXCEPT !.kids = orig[i].kids \o log[i]]
          /\ Len(root[i].kids) = Len(orig[i].kids) + Len(log[i])
    /\ (call.op = "inject" /\ call.err = "ok") =>
          LET kids == root[call.target[1]].kids
              was == call.before[call.target[1]].kids
          IN  /\ call.content.kind = "text" => IsElementMarkup(call.content.toks)
              /\ Len(kids) = Len(was) + 1
              /\ SubSeq(kids, 1, Len(was)) = was
              /\ kids[Len(kids)] = log[call.target[1]][Len(log[call.target[1]])]

\* two different fragments injected one after the other into the layer that
\* was loaded with a child
C1_Witness ==
    /\ call.op = "inject" /\ call.err = "ok"
    /\ call.target = <<1>>
    /\ orig[1].kids # <<>>
    /\ Len(log[1]) = 2
    /\ log[1][1] # log[1][2]

\* C2: inject of an Element the caller has built succeeds and appends that
\* node as the last child of the target, the children before it unchanged.
C2_ElementAppended ==
    (call.op = "inject" /\ call.content.kind = "element" /\ call.target # NoPath) =>
        /\ call.err = "ok"
        /\ root = [call.before EXCEPT ![call.target[1]].kids =
                       Append(@, call.content.node)]

C4_NamedErrors ==
    (call.op = "getLayerInjector" /\ call.id \in PlainIds) =>
        /\ TopGroups(call.id) = {} /\ vbattr # NoAttr =>
              call.err = "LayerNotFoundError" /\ call.ret = None
        /\ vbattr = NoAttr /\ TopGroups(call.id) # {} =>
              call.err = "MissingViewportError" /\ call.ret = None
        /\ vbattr = NoAttr /\ TopGroups(call.id) = {} =>
              /\ call.err \in {"LayerNotFoundError", "MissingViewportError"}
              /\ call.ret = None

\* C4 as amended: for an id without a single quote, getLayerInjector fails
\* with TypeError and returns no injector when the root declares no viewport
\* box.  When no child group of the root has the id it does not fail on
\* that account: with a valid viewport box and ranges of non-zero delta it
\* returns an injector whose target is None, and every inject on such an
\* injector raises AttributeError and leaves the document as it was.
C4_TypeErrorOrNoneTarget ==
    /\ (call.op = "getLayerInjector" /\ call.id \in PlainIds) =>
          /\ vbattr = NoAttr => call.err = "TypeError" /\ call.ret = None
          /\ ( /\ TopGroups(call.id) = {}
               /\ viewBox(vbattr).err = "ok" /\ vbattr # NoAttr
               /\ EndpointDelta(deltaFnHV.deltaFnH, call.hrange[1], call.hrange[2]) # 0
               /\ EndpointDelta(deltaFnHV.deltaFnV, call.vrange[1], call.vrange[2]) # 0 ) =>
                 /\ call.err = "ok"
                 /\ call.ret.kind = "ScaledInjectionPoint"
                 /\ call.ret.target = NoPath
    /\ (call.op = "inject" /\ call.target = NoPath) =>
          call.err = "AttributeError" /\ root = call.before

\* well-formed markup injected through the injector that was returned for an
\* id no element has
C4_Witness ==
    /\ call.op = "inject"
    /\ call.target = NoPath
    /\ call.content.kind = "text" /\ IsElementMarkup(call.content.toks)
    /\ call.err = "AttributeError"

\* what a snapshot of the tree holds: the declaration, the root element's
\* start tag, every element below it in document order, the root's end tag
Snapshot(children) ==
    << <<"xml", <<"", "utf8">>, NoId>>, <<"start", <<"", "svg">>, vbattr>> >>
    \o SerializeAll(children) \o << <<"end", <<"", "svg">>, NoId>> >>

\* whether part occurs in whole as a run of consecutive elements
Occurs(part, whole) ==
    \E k \in 0..(Len(whole) - Len(part)) : SubSeq(whole, k + 1, k + Len(part)) = part

\* C10: save is enabled in every state of a loaded document, before and after
\* injections and saves, and so is inject for a caller that holds an
\* injector; a save writes a snapshot of the tree as it is, with every node
\* injected so far, and leaves the tree, the injector and the history alone.
C10_SaveAnyTime ==
    /\ [](ENABLED Save /\ (ip # NoIP => ENABLED Inject))
    /\ [][Save => /\ root' = root
                  /\ ip' = ip
                  /\ file' = Snapshot(root)
                  /\ \A i \in 1..Len(log) : \A k \in 1..Len(log[i]) :
                        Occurs(Serialize(log[i][k]), file')]_vars

\* an injection, a save of the mutated document, and a further injection
\* that succeeds after the save
C10_Witness ==
    /\ call.op = "inject" /\ call.err = "ok"
    /\ Injected = 2
    /\ file = Snapshot(call.before)

====
